---- MODULE Spec2Model ----
(***************************************************************************)
(* Notification-delivery core of husky: the sent-record ledger             *)
(* (sent_notifications / sent_announcements), send-with-dedup dispatch,    *)
(* the fan-out primitives runConcurrently / executeConcurrently and the    *)
(* retention sweepers.                                                     *)
(***************************************************************************)
EXTENDS Integers, Sequences, FiniteSets, TLC

VARIABLES
    sent_notifications,  \* table sent_notifications: set of rows
    sent_announcements,  \* table sent_announcements: set of rows
    now,                 \* wall clock (stdlibtime.Now), in retention time units
    pc,                  \* dispatcher -> "idle" (its next call is entered, the insert not yet made) | "send" | "release"
    log,                 \* dispatcher -> sequence of its dispatch calls (last = current)
    owner,               \* ledger key -> <<dispatcher, call number>> of the latest successful reservation
    pruned,              \* ledger key -> rows removed by the retention sweep
    fkind,               \* fan-out call: "none" | "runConcurrently" | "executeConcurrently"
    fpc,                 \* the caller: "idle" | "spawn" | "wait" | "returned"
    fn,                  \* len(args) / len(fs)
    fctx,                \* ctx.Err() of the caller's context: "nil" | "canceled" | "deadline"
    fctxAtCall,          \* fctx when the fan-out call was made
    spawned,             \* goroutines started by the caller's loop
    branch,              \* index -> "unstarted" | "run" | "send" | "defer" | "exited"
    outcome,             \* index -> what run / fs[ix] returned: "none" | "nil" | "fail"
    invoked,             \* index -> number of times the handler was invoked
    wg,                  \* the WaitGroup counter
    errChan,             \* the buffered channel: results in the order sent
    errCap,              \* capacity of errChan
    fresult,             \* what the fan-out call returned
    sctx,                \* ctx.Err() of the context the cleaners were started with
    spc,                 \* cleaner -> "select" | "pass" | "returned"
    tickerC,             \* cleaner -> a tick is buffered in ticker.C
    lastErr,             \* cleaner -> the error its last pass logged, "nil" for none
    reqLive,             \* cleaner -> its running pass got a live reqCtx
    elapsed,             \* cleaner -> time since its running pass got its reqCtx
    interval,            \* cleaner -> minutes between the ticks of its ticker
    pruneCtx,            \* ctx.Err() of the context a delete function is called with
    pruneCalls,          \* direct calls of the delete functions made so far
    pruneRet,            \* the last direct call: which function, its error, the time
    cfg,                 \* config.DisabledAchievementsNotifications: Levels, Badges, Roles
    asked,               \* the last Is...NotificationDisabled call: function and name
    answer,              \* what that call returned
    probe,               \* the CheckHealth call under way
    responder,           \* its responder channel (capacity 1)
    brokerMessages,      \* messages handed to the message broker so far
    hlog                 \* the CheckHealth calls that have returned

ledger   == <<sent_notifications, sent_announcements>>
clock    == <<now>>
dispatch == <<pc, log, owner>>
fanout   == <<fkind, fpc, fn, fctx, fctxAtCall, spawned, branch, outcome, invoked,
              wg, errChan, errCap, fresult>>
sweeper  == <<sctx, spc, tickerC, lastErr, reqLive, elapsed, interval>>
pruning  == <<pruneCtx, pruneCalls, pruneRet>>
suppression == <<cfg, asked, answer>>
health   == <<probe, responder, brokerMessages, hlog>>
rest     == <<pruning, suppression, health>>
vars     == <<ledger, clock, dispatch, pruned, fanout, sweeper, rest>>

-----------------------------------------------------------------------------
(* Bounds of the model *)

NumDispatchers == 2
MaxCalls == 2
MaxArgs == 3
MaxPrunes == 2
MaxEntries == 2
MaxProbes == 3

(* Program constants *)

RetentionWindow == 24

\* const deadline = 30 * stdlibtime.Second
Deadline == 30

\* rand.Intn(24)
IntervalChoices == 24

-----------------------------------------------------------------------------
(* Data *)

Dispatchers == 1 .. NumDispatchers
Users       == {"u1", "u2"}
Broadcast   == "*"
Uniqueness  == {"badge:gold"}
Types       == {"badge_unlocked"}
Channels    == {"push"}
Values      == {"token-1"}

\* storage.Exec either reaches the store ("ok") or fails ("err": store
\* unreachable, context cancelled or past its deadline).
ExecOutcomes == {"ok", "err"}

NotificationKey_NoUser(sn) ==
    [user_id |-> "",
     uniqueness |-> sn.uniqueness,
     notification_type |-> sn.notification_type,
     notification_channel |-> sn.notification_channel,
     notification_channel_value |-> sn.notification_channel_value]

NotificationKey(sn) ==
    [user_id |-> sn.user_id,
     uniqueness |-> sn.uniqueness,
     notification_type |-> sn.notification_type,
     notification_channel |-> sn.notification_channel,
     notification_channel_value |-> sn.notification_channel_value]

AnnouncementKey(sa) ==
    [uniqueness |-> sa.uniqueness,
     notification_type |-> sa.notification_type,
     notification_channel |-> sa.notification_channel,
     notification_channel_value |-> sa.notification_channel_value]

\* The sentNotification a dispatcher builds for recipient u at time t.
sentNotification(u, t) ==
    [sent_at |-> t, language |-> "en", user_id |-> u,
     uniqueness |-> "badge:gold", notification_type |-> "badge_unlocked",
     notification_channel |-> "push", notification_channel_value |-> "token-1"]

sentAnnouncement(t) ==
    [sent_at |-> t, language |-> "en",
     uniqueness |-> "badge:gold", notification_type |-> "badge_unlocked",
     notification_channel |-> "push", notification_channel_value |-> "token-1"]

\* (recipient-or-broadcast, uniqueness key, type, channel, destination)
LedgerKey(kind, s) ==
    [user_id |-> IF kind = "announcement" THEN Broadcast ELSE s.user_id,
     uniqueness |-> s.uniqueness,
     notification_type |-> s.notification_type,
     notification_channel |-> s.notification_channel,
     notification_channel_value |-> s.notification_channel_value]

LedgerKeys ==
    [user_id : Users \cup {Broadcast}, uniqueness : Uniqueness,
     notification_type : Types, notification_channel : Channels,
     notification_channel_value : Values]

-----------------------------------------------------------------------------
(* SentRecordStore *)

insertSentNotification_NoUniqueness(rows, sn, exec) ==
    IF exec = "err"
    THEN [rows |-> rows, err |-> "failed"]
    ELSE [rows |-> rows \cup {sn}, err |-> "nil"]

insertSentNotification_UniquePerSentAt(rows, sn, exec) ==
    IF exec = "err"
    THEN [rows |-> rows, err |-> "failed"]
    ELSE IF sn \in rows
         THEN [rows |-> rows, err |-> "duplicate"]
         ELSE [rows |-> rows \cup {sn}, err |-> "nil"]

\* INSERT INTO sent_notifications ...: the insert violates the uniqueness
\* constraint when a row with the same key exists (the error is returned
\* wrapped), and fails without effect when storage.Exec fails.
insertSentNotification(rows, sn, exec) ==
    IF exec = "err"
    THEN [rows |-> rows, err |-> "failed"]
    ELSE IF \E r \in rows : NotificationKey(r) = NotificationKey(sn)
         THEN [rows |-> rows, err |-> "duplicate"]
         ELSE [rows |-> rows \cup {sn}, err |-> "nil"]

deleteSentNotification_KeepsRow(rows, sn, exec) ==
    IF exec = "err"
    THEN [rows |-> rows, err |-> "failed"]
    ELSE [rows |-> rows, err |-> "nil"]

\* DELETE FROM sent_notifications WHERE user_id = $1 AND uniqueness = $2 AND ...
deleteSentNotification(rows, sn, exec) ==
    IF exec = "err"
    THEN [rows |-> rows, err |-> "failed"]
    ELSE [rows |-> {r \in rows : NotificationKey(r) # NotificationKey(sn)},
          err |-> "nil"]

insertSentAnnouncement_NoUniqueness(rows, sa, exec) ==
    IF exec = "err"
    THEN [rows |-> rows, err |-> "failed"]
    ELSE [rows |-> rows \cup {sa}, err |-> "nil"]

insertSentAnnouncement(rows, sa, exec) ==
    IF exec = "err"
    THEN [rows |-> rows, err |-> "failed"]
    ELSE IF \E r \in rows : AnnouncementKey(r) = AnnouncementKey(sa)
         THEN [rows |-> rows, err |-> "duplicate"]
         ELSE [rows |-> rows \cup {sa}, err |-> "nil"]

deleteSentAnnouncement(rows, sa, exec) ==
    IF exec = "err"
    THEN [rows |-> rows, err |-> "failed"]
    ELSE [rows |-> {r \in rows : AnnouncementKey(r) # AnnouncementKey(sa)},
          err |-> "nil"]

\* ctxErr is ctx.Err(): "nil", "canceled" or "deadline".
\* errors.Wrap(ctx.Err(), "unexpected deadline")
WrapCtxErr(e) ==
    IF e = "canceled" THEN "unexpected deadline: context canceled"
    ELSE "unexpected deadline: context deadline exceeded"

deleteOldSentNotifications_Inclusive(rows, ctxErr, exec, t) ==
    IF ctxErr # "nil" THEN [rows |-> rows, err |-> WrapCtxErr(ctxErr)]
    ELSE IF exec = "err" THEN [rows |-> rows, err |-> "failed"]
         ELSE [rows |-> {r \in rows : ~(r.sent_at <= t - RetentionWindow)},
               err |-> "nil"]

deleteOldSentNotifications_AnyAge(rows, ctxErr, exec, t) ==
    IF ctxErr # "nil" THEN [rows |-> rows, err |-> WrapCtxErr(ctxErr)]
    ELSE IF exec = "err" THEN [rows |-> rows, err |-> "failed"]
         ELSE [rows |-> {}, err |-> "nil"]

deleteOldSentNotifications(rows, ctxErr, exec, t) ==
    IF ctxErr # "nil"
    THEN [rows |-> rows, err |-> WrapCtxErr(ctxErr)]
    ELSE IF exec = "err"
         THEN [rows |-> rows, err |-> "failed"]
         ELSE [rows |-> {r \in rows : ~(r.sent_at < t - RetentionWindow)},
               err |-> "nil"]

deleteOldSentAnnouncements_NoCtxCheck(rows, ctxErr, exec, t) ==
    IF exec = "err" THEN [rows |-> rows, err |-> "failed"]
    ELSE [rows |-> {r \in rows : ~(r.sent_at < t - RetentionWindow)}, err |-> "nil"]

deleteOldSentAnnouncements(rows, ctxErr, exec, t) ==
    IF ctxErr # "nil"
    THEN [rows |-> rows, err |-> WrapCtxErr(ctxErr)]
    ELSE IF exec = "err"
         THEN [rows |-> rows, err |-> "failed"]
         ELSE [rows |-> {r \in rows : ~(r.sent_at < t - RetentionWindow)},
               err |-> "nil"]

\* Number of rows the two tables hold for ledger key k.
RowCount(k, notifs, anns) ==
    Cardinality({r \in notifs : LedgerKey("notification", r) = k})
        + Cardinality({r \in anns : LedgerKey("announcement", r) = k})

-----------------------------------------------------------------------------
(* DispatchEngine: send-with-dedup for one intent on one channel *)

\* The intents a dispatcher is called with: <<kind, recipient>>.
Intents == {<<"notification", u>> : u \in Users} \cup {<<"announcement", Broadcast>>}

\* A dispatch call: the intent and what each step of the call has done so far.
NewCall(kind, u, t, rem) ==
    [kind |-> kind, user_id |-> u, sent_at |-> t,
     reserve |-> "none", send |-> "none", release |-> "none",
     result |-> "none", rem |-> rem]

CallKey(c) ==
    [user_id |-> c.user_id,
     uniqueness |-> "badge:gold", notification_type |-> "badge_unlocked",
     notification_channel |-> "push", notification_channel_value |-> "token-1"]

Current(p) == log[p][Len(log[p])]

SetCurrent(p, c) == [log EXCEPT ![p] = [@ EXCEPT ![Len(@)] = c]]

\* Every dispatch call made so far, as <<dispatcher, call number>>.
CallIds == UNION {{<<p, i>> : i \in 1 .. Len(log[p])} : p \in Dispatchers}

Call(x) == log[x[1]][x[2]]

TotalCalls == LET Sum[i \in 0 .. NumDispatchers] ==
                      IF i = 0 THEN 0 ELSE Len(log[i]) + Sum[i - 1]
              IN  Sum[NumDispatchers]

CallsOn(k) == {x \in CallIds : CallKey(Call(x)) = k}

Attempts(k)     == Cardinality(CallsOn(k))
Reservations(k) == Cardinality({x \in CallsOn(k) : Call(x).reserve = "ok"})
Skips(k)        == Cardinality({x \in CallsOn(k) : Call(x).reserve = "dup"})
StoreErrs(k)    == Cardinality({x \in CallsOn(k) : Call(x).reserve = "err"})
Delivered(k)    == Cardinality({x \in CallsOn(k) : Call(x).send = "ok"})
Released(k)     == Cardinality({x \in CallsOn(k) : Call(x).release = "ok"})

\* The dispatchers are the branches of one fan-out over the intents: each runs
\* its dispatch calls back to back, so a dispatcher that is "idle" has entered
\* its next call and not yet reached the insert, and the first calls of
\* distinct dispatchers are concurrent.
\*
\* dispatch is called for one intent on one channel: a personal notification
\* for user u, or (u = Broadcast) an announcement, stamped with the current
\* time.  Step b: reserve the ledger row; a uniqueness conflict means "already
\* sent", the delivery is skipped and the call succeeds.
Reserve(p, kind, u, exec) ==
    /\ pc[p] = "idle"
    /\ TotalCalls < MaxCalls
    /\ LET c0   == NewCall(kind, u, now, 0)
           k    == CallKey(c0)
           c    == [c0 EXCEPT !.rem = Released(k) + pruned[k]]
           r    == IF kind = "notification"
                   THEN insertSentNotification(sent_notifications,
                                               sentNotification(u, now), exec)
                   ELSE insertSentAnnouncement(sent_announcements,
                                               sentAnnouncement(now), exec)
       IN  /\ IF kind = "notification"
              THEN /\ sent_notifications' = r.rows
                   /\ UNCHANGED sent_announcements
              ELSE /\ sent_announcements' = r.rows
                   /\ UNCHANGED sent_notifications
           /\ CASE r.err = "nil" ->
                    /\ log' = [log EXCEPT ![p] = Append(@, [c EXCEPT !.reserve = "ok"])]
                    /\ pc' = [pc EXCEPT ![p] = "send"]
                    /\ owner' = [owner EXCEPT ![k] = <<p, Len(log[p]) + 1>>]
                [] r.err = "duplicate" ->
                    /\ log' = [log EXCEPT ![p] =
                                  Append(@, [c EXCEPT !.reserve = "dup", !.result = "nil"])]
                    /\ UNCHANGED <<pc, owner>>
                [] OTHER ->
                    /\ log' = [log EXCEPT ![p] =
                                  Append(@, [c EXCEPT !.reserve = "err", !.result = "err"])]
                    /\ UNCHANGED <<pc, owner>>
    /\ UNCHANGED <<clock, pruned, fanout, sweeper, rest>>

\* Step c: ChannelSender.send; on success the row is kept.
Send(p, ok) ==
    /\ pc[p] = "send"
    /\ LET c == Current(p)
       IN  IF ok
           THEN /\ log' = SetCurrent(p, [c EXCEPT !.send = "ok", !.result = "nil"])
                /\ pc' = [pc EXCEPT ![p] = "idle"]
           ELSE /\ log' = SetCurrent(p, [c EXCEPT !.send = "fail"])
                /\ pc' = [pc EXCEPT ![p] = "release"]
    /\ UNCHANGED <<ledger, clock, owner, pruned, fanout, sweeper, rest>>

\* Step c, on failure: delete the reserved row and surface the channel error.
Release(p, exec) ==
    /\ pc[p] = "release"
    /\ LET c == Current(p)
           r == IF c.kind = "notification"
                THEN deleteSentNotification(sent_notifications,
                                            sentNotification(c.user_id, c.sent_at), exec)
                ELSE deleteSentAnnouncement(sent_announcements,
                                            sentAnnouncement(c.sent_at), exec)
       IN  /\ IF c.kind = "notification"
              THEN /\ sent_notifications' = r.rows
                   /\ UNCHANGED sent_announcements
              ELSE /\ sent_announcements' = r.rows
                   /\ UNCHANGED sent_notifications
           /\ log' = SetCurrent(p, [c EXCEPT
                                      !.release = IF r.err = "nil" THEN "ok" ELSE "err",
                                      !.result = "err"])
    /\ pc' = [pc EXCEPT ![p] = "idle"]
    /\ UNCHANGED <<clock, owner, pruned, fanout, sweeper, rest>>

-----------------------------------------------------------------------------
(* Wall clock and the retention passes *)

\* The instants the dispatchers and the passes read the clock at: the start,
\* and just more than one retention window later.
Instants == {0, RetentionWindow + 1}

Tick(t) ==
    /\ t > now
    /\ now' = t
    /\ UNCHANGED <<ledger, dispatch, pruned, fanout, sweeper, rest>>

\* The prune counters after a pass that removed the rows of the keys in gone.
PrunedBy(gone) ==
    [k \in LedgerKeys |-> IF k \in gone THEN pruned[k] + 1 ELSE pruned[k]]

\* One cleanup pass of the sent_notifications sweeper, on a live context.
PassNotifications(exec) ==
    /\ LET r == deleteOldSentNotifications(sent_notifications, "nil", exec, now)
       IN  /\ sent_notifications' = r.rows
           /\ pruned' = PrunedBy({LedgerKey("notification", x) :
                                     x \in sent_notifications \ r.rows})
    /\ UNCHANGED <<sent_announcements, clock, dispatch, fanout, sweeper, rest>>

\* One cleanup pass of the sent_announcements sweeper, on a live context.
PassAnnouncements(exec) ==
    /\ LET r == deleteOldSentAnnouncements(sent_announcements, "nil", exec, now)
       IN  /\ sent_announcements' = r.rows
           /\ pruned' = PrunedBy({LedgerKey("announcement", x) :
                                     x \in sent_announcements \ r.rows})
    /\ UNCHANGED <<sent_notifications, clock, dispatch, fanout, sweeper, rest>>

-----------------------------------------------------------------------------
(* Fan-out: runConcurrently and executeConcurrently *)

Indexes == 1 .. MaxArgs

CtxErrs == {"canceled", "deadline"}

NoResult == [kind |-> "none", cause |-> "nil", errors |-> <<>>]

\* errors.Wrap(ctx.Err(), "unexpected deadline")
CtxFailure(e) == [kind |-> "ctx", cause |-> e, errors |-> <<>>]

runConcurrentlyEntry_LenFirst(ctxErr, n) ==
    IF n = 0 THEN "empty"
    ELSE IF ctxErr # "nil" THEN "ctx"
    ELSE "go"

\* The checks runConcurrently makes before it starts any goroutine.
runConcurrentlyEntry(ctxErr, n) ==
    IF ctxErr # "nil" THEN "ctx"
    ELSE IF n = 0 THEN "empty"
    ELSE "go"

\* The check executeConcurrently makes before it starts any goroutine: it
\* takes no context.
executeConcurrentlyEntry(n) ==
    IF n = 0 THEN "empty" ELSE "go"

chanCapacity_Unbuffered(n) == 0

\* errChan := make(chan error, len(args))
chanCapacity(n) == n

argOf_LoopVariable(ix) == spawned

\* go func(ix int) {...}(i): the goroutine works on the index it was given.
argOf(ix) == ix

wgWait_ShortCircuit(counter, ch) ==
    counter = 0 \/ \E j \in 1 .. Len(ch) : ch[j].err # "nil"

\* wg.Wait() returns when the counter is zero, whatever the results so far.
wgWait(counter, ch) == counter = 0

Aggregate_FirstOnly(ch) ==
    LET errs == SelectSeq(ch, LAMBDA e : e.err # "nil")
    IN  IF errs = <<>>
        THEN [kind |-> "nil", cause |-> "nil", errors |-> <<>>]
        ELSE [kind |-> "multi", cause |-> "nil", errors |-> <<errs[1].ix>>]

\* close(errChan); range over it; multierror.Append(nil, errs...).ErrorOrNil():
\* the nil results are dropped, every other one is kept, in channel order.
Aggregate(ch) ==
    LET errs == SelectSeq(ch, LAMBDA e : e.err # "nil")
    IN  IF errs = <<>>
        THEN [kind |-> "nil", cause |-> "nil", errors |-> <<>>]
        ELSE [kind |-> "multi", cause |-> "nil",
              errors |-> [j \in 1 .. Len(errs) |-> errs[j].ix]]

FanOutIdle ==
    /\ fkind = "none"
    /\ fpc = "idle"
    /\ fn = 0
    /\ fctx = "nil"
    /\ fctxAtCall = "nil"
    /\ spawned = 0
    /\ branch = [i \in Indexes |-> "unstarted"]
    /\ outcome = [i \in Indexes |-> "none"]
    /\ invoked = [i \in Indexes |-> 0]
    /\ wg = 0
    /\ errChan = <<>>
    /\ errCap = 0
    /\ fresult = NoResult

-----------------------------------------------------------------------------
(* The cleaners: startOldSentNotificationsCleaner and
   startOldSentAnnouncementsCleaner *)

Cleaners == {"notifications", "announcements"}

\* rand.Intn(n): a number of [0, n)
Intn(n) == 0 .. n - 1

tickerInterval_NoOffset(r) == r

\* stdlibtime.Duration(1+rand.Intn(24)) * stdlibtime.Minute, in minutes
tickerInterval(r) == 1 + r

\* The loops of both cleaners with their tickers made; each waits in its
\* select.
CleanerLoops ==
    /\ sctx = "nil"
    /\ spc = [s \in Cleaners |-> "select"]
    /\ tickerC = [s \in Cleaners |-> FALSE]
    /\ lastErr = [s \in Cleaners |-> "nil"]
    /\ reqLive = [s \in Cleaners |-> FALSE]
    /\ elapsed = [s \in Cleaners |-> 0]

\* StartProcessor has started both cleaners; each waits in its select.  The
\* time between two ticks is left open in the steps of the cleaners, so the
\* interval is taken at its least value here.
CleanersStarted ==
    /\ interval = [s \in Cleaners |-> tickerInterval(0)]
    /\ CleanerLoops

ctxDone_Always(err) == TRUE

\* case <-ctx.Done(): the channel is closed once the context has an error.
ctxDone(err) == err # "nil"

WithTimeout_NoDeadline(createdLive, parentErr, el) ==
    IF createdLive
    THEN {"nil"} \cup ({parentErr} \ {"nil"})
    ELSE {parentErr}

\* context.WithTimeout(ctx, deadline): the values reqCtx.Err() can have when
\* the pass reads it, el after reqCtx was made. A child of a cancelled parent
\* is cancelled from the start. A child created live is live until the
\* deadline and expired from then on, or it is read after the parent was
\* cancelled in the meantime.
WithTimeout(createdLive, parentErr, el) ==
    IF createdLive
    THEN (IF el >= Deadline THEN {"deadline"} ELSE {"nil"})
             \cup ({parentErr} \ {"nil"})
    ELSE {parentErr}

AfterPass_ReturnOnError(err) == IF err = "nil" THEN "select" ELSE "returned"

\* log.Error(...); cancel(); the for loop goes round to the select again.
AfterPass(err) == "select"

\* What the cleaner's delete function returns for the table it sweeps.
cleanerPass(s, ctxErr, exec) ==
    IF s = "notifications"
    THEN deleteOldSentNotifications(sent_notifications, ctxErr, exec, now)
    ELSE deleteOldSentAnnouncements(sent_announcements, ctxErr, exec, now)

-----------------------------------------------------------------------------
(* The delete functions called directly *)

\* No direct call of a delete function has been made.
PruneIdle ==
    /\ pruneCtx = "nil"
    /\ pruneCalls = 0
    /\ pruneRet = [fn |-> "none", err |-> "nil", at |-> 0]

\* Names are sequences of characters.
Chars == {"g", "G", "s"}

NameLengths == {1, 2}

Names == UNION {[1 .. n -> Chars] : n \in NameLengths}

\* unicode.SimpleFold: the next character of the same case orbit.
SimpleFold(c) ==
    CASE c = "g" -> "G"
      [] c = "G" -> "g"
      [] c = "s" -> "S"
      [] c = "S" -> "s"
      [] OTHER   -> c

\* One step of strings.EqualFold: the two characters are the same or lie on
\* the same case orbit.
RuneEqualFold(a, b) ==
    \/ a = b
    \/ SimpleFold(a) = b
    \/ SimpleFold(SimpleFold(a)) = b

EqualFold_CaseSensitive(s, t) == s = t

\* strings.EqualFold(s, t)
RECURSIVE EqualFold(_, _)
EqualFold(s, t) ==
    IF s = <<>> \/ t = <<>>
    THEN s = t
    ELSE RuneEqualFold(Head(s), Head(t)) /\ EqualFold(Tail(s), Tail(t))

IsLevelNotificationDisabled(c, levelName) ==
    IF Len(c.Levels) = 0 THEN FALSE
    ELSE \E i \in 1 .. Len(c.Levels) : EqualFold(c.Levels[i], levelName)

IsBadgeNotificationDisabled(c, badgeName) ==
    IF Len(c.Badges) = 0 THEN FALSE
    ELSE \E i \in 1 .. Len(c.Badges) : EqualFold(c.Badges[i], badgeName)

IsRoleNotificationDisabled(c, roleName) ==
    IF Len(c.Roles) = 0 THEN FALSE
    ELSE \E i \in 1 .. Len(c.Roles) : EqualFold(c.Roles[i], roleName)

\* No suppression question has been asked; nothing is disabled.
SuppressionIdle ==
    /\ cfg = [Levels |-> <<>>, Badges |-> <<>>, Roles |-> <<>>]
    /\ asked = [fn |-> "none", name |-> <<>>]
    /\ answer = FALSE

NoProbe ==
    [pc |-> "idle", ping |-> "none", marshal |-> "none", sent |-> FALSE,
     reply |-> "none", result |-> "none"]

\* CheckHealth has not been called.
HealthIdle ==
    /\ probe = NoProbe
    /\ responder = <<>>
    /\ brokerMessages = 0
    /\ hlog = <<>>

RestIdle ==
    /\ PruneIdle
    /\ SuppressionIdle
    /\ HealthIdle

-----------------------------------------------------------------------------
(* Specification of the dispatch path *)

\* The ledger is empty and no dispatch call has been made.
DispatchInit ==
    /\ sent_notifications = {}
    /\ sent_announcements = {}
    /\ now = 0
    /\ pc = [p \in Dispatchers |-> "idle"]
    /\ log = [p \in Dispatchers |-> <<>>]
    /\ owner = [k \in LedgerKeys |-> <<0, 0>>]
    /\ pruned = [k \in LedgerKeys |-> 0]

Init ==
    /\ DispatchInit
    /\ FanOutIdle
    /\ CleanersStarted
    /\ RestIdle

Next ==
    \/ \E p \in Dispatchers, i \in Intents, exec \in ExecOutcomes :
            Reserve(p, i[1], i[2], exec)
    \/ \E p \in Dispatchers, ok \in BOOLEAN : Send(p, ok)
    \/ \E p \in Dispatchers, exec \in ExecOutcomes : Release(p, exec)
    \/ \E t \in Instants : Tick(t)
    \/ \E exec \in ExecOutcomes : PassNotifications(exec)
    \/ \E exec \in ExecOutcomes : PassAnnouncements(exec)

Spec == Init /\ [][Next]_vars

-----------------------------------------------------------------------------
(* Properties of the dispatch path *)

Returned(c) == c.result # "none"

\* storage.Exec never failed during the call.
StoreOk(c) == c.reserve # "err" /\ c.release # "err"

\* No call on key k is between its insert and its return.
Quiescent(k) == \A x \in CallsOn(k) : Returned(Call(x))

\* Two calls in sequence: calls i and i + 1 of one dispatcher, on the same key.
SequentialPairs ==
    {x \in CallIds : /\ x[2] < Len(log[x[1]])
                     /\ CallKey(log[x[1]][x[2] + 1]) = CallKey(Call(x))}

Second(x) == log[x[1]][x[2] + 1]

\* The first calls of the dispatchers on key k: N concurrent dispatch calls.
FirstCallsOn(k) == {x \in CallsOn(k) : x[2] = 1}

Rows(k) == RowCount(k, sent_notifications, sent_announcements)

C2_Isolation ==
    \A k \in LedgerKeys :
        LET F == FirstCallsOn(k)
        IN  (F # {} /\ \A x \in F : Returned(Call(x)) /\ StoreOk(Call(x)))
                => /\ Cardinality({x \in F : Call(x).reserve = "ok"}) = 1
                   /\ Cardinality({x \in F : Call(x).reserve = "dup"})
                          = Cardinality(F) - 1

\* C2 (amended): the key never has more than one row, and a reservation
\* succeeds only when no row exists: reservations never exceed one plus the
\* rows released by a compensating delete or pruned by a sweep.  So when no
\* row of the key is released or pruned and every insert reaches the store,
\* N calls result in exactly 1 successful reservation and N - 1 skips.
C2_IsolationUnlessReleased ==
    \A k \in LedgerKeys :
        LET removed == Released(k) + pruned[k]
            won     == Reservations(k)
        IN  /\ Rows(k) <= 1
            /\ won <= 1 + removed
            /\ (removed = 0 /\ Skips(k) > 0) => won = 1
            /\ (removed = 0 /\ StoreErrs(k) = 0 /\ Attempts(k) >= 1 /\ Quiescent(k))
                  => /\ won = 1
                     /\ Skips(k) = Attempts(k) - 1

C2_Witness ==
    \E k \in LedgerKeys :
        /\ Cardinality(FirstCallsOn(k)) >= 2
        /\ Quiescent(k)
        /\ Released(k) = 0 /\ pruned[k] = 0 /\ StoreErrs(k) = 0
        /\ Reservations(k) = 1
        /\ Skips(k) = Attempts(k) - 1

\* C3 (as stated): in every interleaving of concurrent dispatch attempts for
\* the same key, the ChannelSender delivers that key successfully at most
\* once.  Stated for the dispatchers' first calls.
C3_AtMostOnce ==
    \A k \in LedgerKeys :
        Cardinality({x \in FirstCallsOn(k) : Call(x).send = "ok"}) <= 1

\* C3 (amended): the successful deliveries of a key never exceed one plus the
\* number of times a retention sweep pruned the key's row: concurrent
\* attempts deliver at most once unless a sweep prunes the reserved row
\* (aged past the retention window) in between.
C3_AtMostOncePerPrune ==
    \A k \in LedgerKeys : Delivered(k) <= 1 + pruned[k]

C3_Witness ==
    \E k \in LedgerKeys :
        /\ Cardinality(FirstCallsOn(k)) >= 2
        /\ Quiescent(k)
        /\ pruned[k] = 0
        /\ Delivered(k) = 1
        /\ \E x \in FirstCallsOn(k) : Call(x).send = "fail" /\ Call(x).release = "ok"

\* C4 (as stated): whenever ChannelSender.send fails after a successful
\* reservation, then once the dispatch has returned the ledger row for that
\* key does not exist (so a later dispatch may reserve it again) and the
\* channel error has been surfaced to the caller.
C4_Compensation ==
    [][\A p \in Dispatchers :
          (pc[p] = "release" /\ pc'[p] = "idle")
              => /\ RowCount(CallKey(Current(p)),
                             sent_notifications', sent_announcements') = 0
                 /\ log'[p][Len(log'[p])].result = "err"]_vars

\* C5 (as stated): every row of sent_notifications / sent_announcements
\* corresponds to a send for its key that has succeeded.
C5_RowMeansDelivered ==
    \A k \in LedgerKeys : Rows(k) >= 1 => Call(owner[k]).send = "ok"

\* C5 (amended): every row is the reservation of a dispatch call that has not
\* been compensated: the call's send has succeeded, or is still pending, or
\* has failed while the compensating delete is still to run or has failed.
C5_RowMeansReservedNotCompensated ==
    \A k \in LedgerKeys :
        Rows(k) >= 1
            => /\ owner[k] \in CallIds
               /\ CallKey(Call(owner[k])) = k
               /\ Call(owner[k]).reserve = "ok"
               /\ ~(Call(owner[k]).send = "fail" /\ Call(owner[k]).release = "ok")

C5_Witness ==
    \E k \in LedgerKeys :
        /\ Rows(k) = 1
        /\ Call(owner[k]).reserve = "ok"
        /\ Call(owner[k]).send = "none"

-----------------------------------------------------------------------------
(* Fan-out: the call and its goroutines *)

\* The entry of a fan-out call over n arguments that decided `entry`.
Enter(kind, n, entry) ==
    /\ fpc = "idle"
    /\ fkind' = kind
    /\ fn' = n
    /\ fctxAtCall' = fctx
    /\ CASE entry = "ctx" ->
              /\ fresult' = CtxFailure(fctx)
              /\ fpc' = "returned"
              /\ UNCHANGED <<wg, errCap>>
         [] entry = "empty" ->
              /\ fresult' = [NoResult EXCEPT !.kind = "nil"]
              /\ fpc' = "returned"
              /\ UNCHANGED <<wg, errCap>>
         [] OTHER ->
              /\ wg' = n
              /\ errCap' = chanCapacity(n)
              /\ fpc' = "spawn"
              /\ UNCHANGED fresult
    /\ UNCHANGED <<fctx, spawned, branch, outcome, invoked, errChan>>
    /\ UNCHANGED <<ledger, clock, dispatch, pruned, sweeper, rest>>

CallRunConcurrently(n) ==
    Enter("runConcurrently", n, runConcurrentlyEntry(fctx, n))

CallExecuteConcurrently(n) ==
    Enter("executeConcurrently", n, executeConcurrentlyEntry(n))

\* for i := range args { go func(ix int) {...}(i) }
Go(i) ==
    /\ fpc = "spawn"
    /\ i = spawned + 1
    /\ spawned' = i
    /\ branch' = [branch EXCEPT ![i] = "run"]
    /\ fpc' = IF i = fn THEN "wait" ELSE "spawn"
    /\ UNCHANGED <<fkind, fn, fctx, fctxAtCall, outcome, invoked, wg, errChan,
                   errCap, fresult>>
    /\ UNCHANGED <<ledger, clock, dispatch, pruned, sweeper, rest>>

\* run(ctx, args[ix]) / fs[ix]() returns.
Run(i, ok) ==
    /\ branch[i] = "run"
    /\ outcome' = [outcome EXCEPT ![i] = IF ok THEN "nil" ELSE "fail"]
    /\ invoked' = [invoked EXCEPT ![argOf(i)] = @ + 1]
    /\ branch' = [branch EXCEPT ![i] = "send"]
    /\ UNCHANGED <<fkind, fpc, fn, fctx, fctxAtCall, spawned, wg, errChan, errCap,
                   fresult>>
    /\ UNCHANGED <<ledger, clock, dispatch, pruned, sweeper, rest>>

\* errChan <- errors.Wrapf(...): blocks while the buffer is full.
SendErr(i) ==
    /\ branch[i] = "send"
    /\ Len(errChan) < errCap
    /\ errChan' = Append(errChan, [ix |-> i, err |-> outcome[i]])
    /\ branch' = [branch EXCEPT ![i] = "defer"]
    /\ UNCHANGED <<fkind, fpc, fn, fctx, fctxAtCall, spawned, outcome, invoked, wg,
                   errCap, fresult>>
    /\ UNCHANGED <<ledger, clock, dispatch, pruned, sweeper, rest>>

\* defer wg.Done()
Done(i) ==
    /\ branch[i] = "defer"
    /\ wg' = wg - 1
    /\ branch' = [branch EXCEPT ![i] = "exited"]
    /\ UNCHANGED <<fkind, fpc, fn, fctx, fctxAtCall, spawned, outcome, invoked,
                   errChan, errCap, fresult>>
    /\ UNCHANGED <<ledger, clock, dispatch, pruned, sweeper, rest>>

\* wg.Wait() returns; the channel is closed and drained; the call returns.
WaitReturn ==
    /\ fpc = "wait"
    /\ wgWait(wg, errChan)
    /\ fresult' = Aggregate(errChan)
    /\ fpc' = "returned"
    /\ UNCHANGED <<fkind, fn, fctx, fctxAtCall, spawned, branch, outcome, invoked,
                   wg, errChan, errCap>>
    /\ UNCHANGED <<ledger, clock, dispatch, pruned, sweeper, rest>>

\* The caller's context is cancelled or passes its deadline.
CancelCtx(e) ==
    /\ fctx = "nil"
    /\ fctx' = e
    /\ UNCHANGED <<fkind, fpc, fn, fctxAtCall, spawned, branch, outcome, invoked,
                   wg, errChan, errCap, fresult>>
    /\ UNCHANGED <<ledger, clock, dispatch, pruned, sweeper, rest>>

FanOutNext ==
    \/ \E n \in 0 .. MaxArgs : CallRunConcurrently(n)
    \/ \E n \in 0 .. MaxArgs : CallExecuteConcurrently(n)
    \/ \E i \in Indexes : Go(i)
    \/ \E i \in Indexes, ok \in BOOLEAN : Run(i, ok)
    \/ \E i \in Indexes : SendErr(i)
    \/ \E i \in Indexes : Done(i)
    \/ WaitReturn
    \/ \E e \in CtxErrs : CancelCtx(e)

FanOutSpec == Init /\ [][FanOutNext]_vars

\* Every goroutine that can take a step takes it sooner or later, and every
\* handler that was started returns.
FairFanOutSpec ==
    /\ FanOutSpec
    /\ \A i \in Indexes : WF_vars(Go(i))
    /\ \A i \in Indexes : WF_vars(\E ok \in BOOLEAN : Run(i, ok))
    /\ \A i \in Indexes : WF_vars(SendErr(i))
    /\ \A i \in Indexes : WF_vars(Done(i))
    /\ WF_vars(WaitReturn)

-----------------------------------------------------------------------------
(* Properties of the fan-out *)

\* The call passed its entry checks and started its goroutines.
FannedOut == fpc # "idle" /\ fresult.kind # "ctx" /\ fn > 0

Failed == {i \in 1 .. fn : outcome[i] = "fail"}

\* C6: a fan-out call over a non-empty list, started with a live context,
\* returns only after every branch has been started, has run its handler and
\* has completed, whether or not other branches failed.
C6_NoShortCircuit ==
    (FannedOut /\ fpc = "returned")
        => \A i \in 1 .. fn : /\ branch[i] = "exited"
                              /\ outcome[i] \in {"nil", "fail"}
                              /\ invoked[i] = 1

C6_Witness ==
    /\ FannedOut /\ fpc = "returned"
    /\ fn >= 2
    /\ Failed # {}
    /\ Failed # 1 .. fn
    /\ \A i \in 1 .. fn : branch[i] = "exited"

\* C7: the error a fan-out call returns holds exactly the failures of the
\* failed branches, one per failed branch, and is nil iff no branch failed.
C7_ErrorAggregation ==
    (FannedOut /\ fpc = "returned")
        => /\ fresult.kind = "nil" <=> Failed = {}
           /\ fresult.kind = "multi" <=> Failed # {}
           /\ {fresult.errors[j] : j \in 1 .. Len(fresult.errors)} = Failed
           /\ Len(fresult.errors) = Cardinality(Failed)

C7_Witness ==
    /\ FannedOut /\ fpc = "returned"
    /\ fn = MaxArgs
    /\ Failed = {MaxArgs - 1}
    /\ fresult.kind = "multi"
    /\ fresult.errors = <<MaxArgs - 1>>

\* C8 (as stated): if the caller's context is already cancelled or past its
\* deadline when a fan-out call is made, the call fails at once with an error
\* wrapping the context error and no branch is started, whatever the list.
C8_CancelledBeforeFanOut ==
    (fpc # "idle" /\ fctxAtCall # "nil")
        => /\ fpc = "returned"
           /\ fresult = CtxFailure(fctxAtCall)
           /\ spawned = 0
           /\ \A i \in Indexes : branch[i] = "unstarted" /\ invoked[i] = 0

\* C8 (amended): the same, for runConcurrently only; executeConcurrently
\* takes no context and makes no such check.
C8_CancelledBeforeRunConcurrently ==
    (fkind = "runConcurrently" /\ fctxAtCall # "nil")
        => /\ fpc = "returned"
           /\ fresult = CtxFailure(fctxAtCall)
           /\ spawned = 0
           /\ \A i \in Indexes : branch[i] = "unstarted" /\ invoked[i] = 0

C8_Witness ==
    /\ fkind = "runConcurrently"
    /\ fctxAtCall = "deadline"
    /\ fn = 0
    /\ fpc = "returned"
    /\ fresult = CtxFailure("deadline")

-----------------------------------------------------------------------------
(* The cleaner loops *)

\* The ticker puts a tick in its channel; a tick that finds the buffer full
\* is dropped. defer ticker.Stop() ends it when the loop returns.
TickerFire(s) ==
    /\ spc[s] # "returned"
    /\ ~tickerC[s]
    /\ tickerC' = [tickerC EXCEPT ![s] = TRUE]
    /\ UNCHANGED <<sctx, spc, lastErr, reqLive, elapsed, interval>>
    /\ UNCHANGED <<ledger, clock, dispatch, pruned, fanout, rest>>

\* case <-ticker.C: the select takes the buffered tick.
SelectTick(s) ==
    /\ spc[s] = "select"
    /\ tickerC[s]
    /\ tickerC' = [tickerC EXCEPT ![s] = FALSE]
    /\ spc' = [spc EXCEPT ![s] = "pass"]
    /\ reqLive' = [reqLive EXCEPT ![s] = sctx = "nil"]
    /\ elapsed' = [elapsed EXCEPT ![s] = 0]
    /\ UNCHANGED <<sctx, lastErr, interval>>
    /\ UNCHANGED <<ledger, clock, dispatch, pruned, fanout, rest>>

\* case <-ctx.Done(): return
SelectDone(s) ==
    /\ spc[s] = "select"
    /\ ctxDone(sctx)
    /\ spc' = [spc EXCEPT ![s] = "returned"]
    /\ UNCHANGED <<sctx, tickerC, lastErr, reqLive, elapsed, interval>>
    /\ UNCHANGED <<ledger, clock, dispatch, pruned, fanout, rest>>

\* The body of the tick case: the delete function runs on reqCtx, its error
\* is logged, and the loop goes on.
RunPass(s, reqErr, exec) ==
    /\ spc[s] = "pass"
    /\ reqErr \in WithTimeout(reqLive[s], sctx, elapsed[s])
    /\ LET r == cleanerPass(s, reqErr, exec)
       IN  /\ IF s = "notifications"
              THEN /\ sent_notifications' = r.rows
                   /\ pruned' = PrunedBy({LedgerKey("notification", x) :
                                             x \in sent_notifications \ r.rows})
                   /\ UNCHANGED sent_announcements
              ELSE /\ sent_announcements' = r.rows
                   /\ pruned' = PrunedBy({LedgerKey("announcement", x) :
                                             x \in sent_announcements \ r.rows})
                   /\ UNCHANGED sent_notifications
           /\ lastErr' = [lastErr EXCEPT ![s] = r.err]
           /\ spc' = [spc EXCEPT ![s] = AfterPass(r.err)]
    /\ reqLive' = [reqLive EXCEPT ![s] = FALSE]
    /\ elapsed' = [elapsed EXCEPT ![s] = 0]
    /\ UNCHANGED <<sctx, tickerC, interval>>
    /\ UNCHANGED <<clock, dispatch, fanout, rest>>

\* Times, after reqCtx was made, at which a pass can find itself: at once,
\* just before the deadline, and at the deadline.
PassTimes == {0, Deadline - 1, Deadline}

\* Time passes while the pass of cleaner s is under way.
PassTime(s, d) ==
    /\ spc[s] = "pass"
    /\ d > elapsed[s]
    /\ elapsed' = [elapsed EXCEPT ![s] = d]
    /\ UNCHANGED <<sctx, spc, tickerC, lastErr, reqLive, interval>>
    /\ UNCHANGED <<ledger, clock, dispatch, pruned, fanout, rest>>

\* The context given to StartProcessor is cancelled.
Cancel ==
    /\ sctx = "nil"
    /\ sctx' = "canceled"
    /\ UNCHANGED <<spc, tickerC, lastErr, reqLive, elapsed, interval>>
    /\ UNCHANGED <<ledger, clock, dispatch, pruned, fanout, rest>>

\* The steps of the two cleaners and of their context.
CleanerSteps ==
    \/ \E s \in Cleaners : TickerFire(s)
    \/ \E s \in Cleaners : SelectTick(s)
    \/ \E s \in Cleaners : SelectDone(s)
    \/ \E s \in Cleaners, reqErr \in {"nil", "canceled", "deadline"},
          exec \in ExecOutcomes : RunPass(s, reqErr, exec)
    \/ \E s \in Cleaners, d \in PassTimes : PassTime(s, d)
    \/ Cancel

CleanerNext ==
    \/ CleanerSteps
    \/ \E t \in Instants : Tick(t)

\* The processor starts on a ledger that holds rows of an earlier run.
CleanerInit ==
    /\ sent_notifications = {sentNotification(u, 0) : u \in Users}
    /\ sent_announcements = {sentAnnouncement(0)}
    /\ now = 0
    /\ pc = [p \in Dispatchers |-> "idle"]
    /\ log = [p \in Dispatchers |-> <<>>]
    /\ owner = [k \in LedgerKeys |-> <<0, 0>>]
    /\ pruned = [k \in LedgerKeys |-> 0]
    /\ FanOutIdle
    /\ CleanersStarted
    /\ RestIdle

CleanerSpec == CleanerInit /\ [][CleanerNext]_vars

\* The select of a cleaner whose context is done takes the Done case sooner
\* or later (Go chooses among the ready cases at random), and a pass that has
\* been started runs to its end.
FairCleanerSpec ==
    /\ CleanerSpec
    /\ \A s \in Cleaners : SF_vars(SelectDone(s))
    /\ \A s \in Cleaners :
          WF_vars(\E reqErr \in {"nil", "canceled", "deadline"},
                     exec \in ExecOutcomes : RunPass(s, reqErr, exec))

\* The dispatcher that works beside the cleaners, and what it dispatches.
Worker == CHOOSE p \in Dispatchers : \A q \in Dispatchers : p <= q

WorkerIntents == {<<"notification", "u1">>}

WorkerNext ==
    \/ \E i \in WorkerIntents, exec \in ExecOutcomes :
            Reserve(Worker, i[1], i[2], exec)
    \/ \E ok \in BOOLEAN : Send(Worker, ok)
    \/ \E exec \in ExecOutcomes : Release(Worker, exec)

\* The cleaners beside a dispatcher, on a ledger that starts empty.
SweeperNext ==
    \/ CleanerSteps
    \/ WorkerNext

SweeperSpec == Init /\ [][SweeperNext]_vars

-----------------------------------------------------------------------------
(* Properties of the cleaners *)

PassFailed(e) == e # "nil"

\* A cleaner returns only when its context is done.
ReturnsOnlyWhenDone ==
    \A s \in Cleaners :
        (spc[s] # "returned" /\ spc'[s] = "returned") => sctx # "nil"

\* No cleaner takes a tick once the context is done.
NoPassAfterCancel ==
    \A s \in Cleaners :
        sctx # "nil" => ~(spc[s] = "select" /\ spc'[s] = "pass")

\* A pass started after the context was done fails on that context and
\* leaves the ledger as it was.
NoPruneAfterCancel ==
    \A s \in Cleaners :
        (spc[s] = "pass" /\ ~reqLive[s] /\ spc'[s] # "pass")
            => /\ lastErr'[s] = WrapCtxErr(sctx)
               /\ UNCHANGED <<ledger, pruned>>

AllReturned == \A s \in Cleaners : spc[s] = "returned"

\* C9 (as stated): each cleaner runs until its context is cancelled; once it
\* is cancelled no cleaner starts a new pass, whether or not a tick is
\* pending, and every cleaner terminates.
C9_SweeperShutdown ==
    /\ [][ReturnsOnlyWhenDone /\ NoPassAfterCancel]_vars
    /\ (sctx # "nil") ~> AllReturned

\* C9 (amended): each cleaner runs until its context is cancelled; once it is
\* cancelled every cleaner terminates, and a pass that it may still start on
\* a pending tick prunes no row.
C9_SweeperShutdownPrunesNothing ==
    /\ [][ReturnsOnlyWhenDone /\ NoPruneAfterCancel]_vars
    /\ (sctx # "nil") ~> AllReturned

C9_Witness ==
    \E s \in Cleaners, t \in Cleaners :
        /\ sctx = "canceled"
        /\ spc[s] = "pass"
        /\ ~reqLive[s]
        /\ spc[t] = "returned"
        /\ \E r \in sent_notifications \cup sent_announcements :
               r.sent_at < now - RetentionWindow

\* A pass that ends in failure leaves its cleaner in the select, and leaves
\* every dispatch call as it was.
FailedPassOnlyLogged ==
    \A s \in Cleaners :
        (spc[s] = "pass" /\ spc'[s] # "pass" /\ PassFailed(lastErr'[s]))
            => /\ spc'[s] = "select"
               /\ UNCHANGED <<pc, log, owner>>
               /\ UNCHANGED ledger

\* After a failed pass the next tick starts a new pass.
NextTickRetries ==
    \A s \in Cleaners :
        (spc[s] = "select" /\ tickerC[s] /\ PassFailed(lastErr[s]))
            => ENABLED SelectTick(s)

\* A dispatch call returns an error only for a failure of its own insert or
\* of its own send.
DispatchErrorsAreOwn ==
    \A x \in CallIds :
        Call(x).result = "err"
            => (Call(x).reserve = "err" \/ Call(x).send = "fail")

\* C10: a pass that fails, with a store error or on its deadline, is only
\* logged; the cleaner goes back to its select, stays alive until its context
\* is cancelled, starts a new pass on the next tick, and no dispatch call is
\* changed by the failure.
C10_SweeperResilience ==
    /\ [][FailedPassOnlyLogged /\ ReturnsOnlyWhenDone]_vars
    /\ [](NextTickRetries /\ DispatchErrorsAreOwn)

C10_Witness ==
    \E s \in Cleaners :
        /\ spc[s] = "pass"
        /\ lastErr[s] = "failed"
        /\ sctx = "nil"
        /\ Len(log[Worker]) > 0
        /\ log[Worker][1].result = "nil"

-----------------------------------------------------------------------------
(* deleteOldSentNotifications / deleteOldSentAnnouncements on any table *)

\* sent_at of the rows the tables hold when the functions are called.
Ages == {0, 1, 2}

\* Times at which the functions are called: the cutoffs they give fall on,
\* before and after the rows' sent_at.
PruneInstants == {RetentionWindow + a : a \in Ages}

\* The tables the functions can find: a table holds at most one row for a key.
NotificationTables ==
    {T \in SUBSET {sentNotification(u, a) : u \in Users, a \in Ages} :
        \A r1 \in T, r2 \in T : NotificationKey(r1) = NotificationKey(r2) => r1 = r2}

AnnouncementTables == {{}} \cup {{sentAnnouncement(a)} : a \in Ages}

PruneInit ==
    /\ sent_notifications \in NotificationTables
    /\ sent_announcements \in AnnouncementTables
    /\ now \in PruneInstants
    /\ pc = [p \in Dispatchers |-> "idle"]
    /\ log = [p \in Dispatchers |-> <<>>]
    /\ owner = [k \in LedgerKeys |-> <<0, 0>>]
    /\ pruned = [k \in LedgerKeys |-> 0]
    /\ FanOutIdle
    /\ CleanersStarted
    /\ RestIdle

\* p.deleteOldSentNotifications(ctx)
CallDeleteOldSentNotifications(exec) ==
    /\ pruneCalls < MaxPrunes
    /\ LET r == deleteOldSentNotifications(sent_notifications, pruneCtx, exec, now)
       IN  /\ sent_notifications' = r.rows
           /\ pruned' = PrunedBy({LedgerKey("notification", x) :
                                     x \in sent_notifications \ r.rows})
           /\ pruneRet' = [fn |-> "notifications", err |-> r.err, at |-> now]
    /\ pruneCalls' = pruneCalls + 1
    /\ UNCHANGED <<sent_announcements, pruneCtx, suppression, health>>
    /\ UNCHANGED <<clock, dispatch, fanout, sweeper>>

\* p.deleteOldSentAnnouncements(ctx)
CallDeleteOldSentAnnouncements(exec) ==
    /\ pruneCalls < MaxPrunes
    /\ LET r == deleteOldSentAnnouncements(sent_announcements, pruneCtx, exec, now)
       IN  /\ sent_announcements' = r.rows
           /\ pruned' = PrunedBy({LedgerKey("announcement", x) :
                                     x \in sent_announcements \ r.rows})
           /\ pruneRet' = [fn |-> "announcements", err |-> r.err, at |-> now]
    /\ pruneCalls' = pruneCalls + 1
    /\ UNCHANGED <<sent_notifications, pruneCtx, suppression, health>>
    /\ UNCHANGED <<clock, dispatch, fanout, sweeper>>

\* The context of the caller is cancelled or passes its deadline.
PruneCtxDone(e) ==
    /\ pruneCtx = "nil"
    /\ pruneCtx' = e
    /\ UNCHANGED <<pruneCalls, pruneRet, suppression, health>>
    /\ UNCHANGED <<ledger, clock, dispatch, pruned, fanout, sweeper>>

PruneNext ==
    \/ \E exec \in ExecOutcomes : CallDeleteOldSentNotifications(exec)
    \/ \E exec \in ExecOutcomes : CallDeleteOldSentAnnouncements(exec)
    \/ \E e \in CtxErrs : PruneCtxDone(e)
    \/ \E t \in PruneInstants : Tick(t)

PruneSpec == PruneInit /\ [][PruneNext]_vars

-----------------------------------------------------------------------------
(* Properties of the delete functions *)

PruneCalled == pruneCalls' = pruneCalls + 1

Cutoff == now - RetentionWindow

\* What a successful call did to table T, now T2: the rows older than the
\* cutoff are gone, the others are there as they were, none was added.
Pruned(T, T2) ==
    /\ \A r \in T : r.sent_at < Cutoff => r \notin T2
    /\ \A r \in T : r.sent_at >= Cutoff => r \in T2
    /\ T2 \subseteq T

\* A call that succeeded pruned its table and left the other table alone.
PrunesExactlyTheOld ==
    (PruneCalled /\ pruneRet'.err = "nil")
        => /\ pruneRet'.fn = "notifications"
                => /\ Pruned(sent_notifications, sent_notifications')
                   /\ UNCHANGED sent_announcements
           /\ pruneRet'.fn = "announcements"
                => /\ Pruned(sent_announcements, sent_announcements')
                   /\ UNCHANGED sent_notifications

\* A successful call that follows a successful call of the same function at
\* the same time deletes nothing.
RerunDeletesNothing ==
    (PruneCalled /\ pruneRet'.err = "nil" /\ pruneRet.err = "nil"
        /\ pruneRet.fn = pruneRet'.fn /\ pruneRet.at = now)
        => UNCHANGED <<ledger, pruned>>

\* C11: a successful prune at cutoff = now - 24 removes every row with
\* sent_at < cutoff from its table and leaves every row with sent_at >= cutoff
\* as it was; running it again with the same cutoff deletes no further row.
C11_Retention == [][PrunesExactlyTheOld /\ RerunDeletesNothing]_vars

C11_Witness ==
    /\ pruneCalls = 2
    /\ pruneRet = [fn |-> "notifications", err |-> "nil", at |-> now]
    /\ \E k \in LedgerKeys : k.user_id = "u1" /\ pruned[k] = 1
    /\ \E r \in sent_notifications : r.user_id = "u2" /\ r.sent_at = Cutoff

\* C19: a delete function called with a context that is already cancelled or
\* past its deadline returns an error that wraps the context's error, and
\* deletes no row of either table.
C19_PruneOnDeadContext ==
    [][(PruneCalled /\ pruneCtx # "nil")
          => /\ pruneRet'.err = WrapCtxErr(pruneCtx)
             /\ pruneRet'.err # "nil"
             /\ UNCHANGED <<ledger, pruned>>]_vars

C19_Witness ==
    /\ pruneCalls > 0
    /\ pruneCtx = "deadline"
    /\ pruneRet.fn = "announcements"
    /\ pruneRet.err = WrapCtxErr("deadline")
    /\ \E r \in sent_announcements : r.sent_at < Cutoff

-----------------------------------------------------------------------------
(* Scoping of the two tables *)

RowsOfUser(T, u) == {r \in T : r.user_id = u}

\* The dispatcher whose call is a personal notification took a step.
PersonalStep(p) ==
    /\ log'[p] # log[p]
    /\ log'[p][Len(log'[p])].kind = "notification"

IsReserve(p) == Len(log'[p]) = Len(log[p]) + 1

\* A step of a personal dispatch for one recipient leaves the rows of every
\* other recipient and the announcements as they were, and it is turned away
\* as a duplicate only by a row of its own recipient.
PersonalRowsIndependent ==
    \A p \in Dispatchers :
        PersonalStep(p)
            => LET c == log'[p][Len(log'[p])]
               IN  /\ \A u \in Users \ {c.user_id} :
                          RowsOfUser(sent_notifications', u)
                              = RowsOfUser(sent_notifications, u)
                   /\ UNCHANGED sent_announcements
                   /\ (IsReserve(p) /\ c.reserve = "dup")
                          => RowsOfUser(sent_notifications, c.user_id) # {}
                   /\ (IsReserve(p) /\ c.reserve = "ok")
                          => /\ RowsOfUser(sent_notifications, c.user_id) = {}
                             /\ RowsOfUser(sent_notifications', c.user_id) # {}

\* The announcement has one row whoever receives it: its rows carry no
\* recipient, and a recipient has at most one row for a personal key.
OneRowPerScope ==
    /\ Cardinality(sent_announcements) <= 1
    /\ \A r \in sent_announcements : "user_id" \notin DOMAIN r
    /\ \A u \in Users : Cardinality(RowsOfUser(sent_notifications, u)) <= 1

\* C12: the broadcast announcement has a single ledger row without a
\* recipient, shared by all who receive it; the same personal notification for
\* two recipients has one row per recipient, and reserving or releasing the
\* row of one recipient never creates, removes or blocks the row of the other.
C12_Scoping == []OneRowPerScope /\ [][PersonalRowsIndependent]_vars

C12_Witness ==
    \E x \in CallIds, y \in CallIds :
        /\ Call(x).kind = "notification" /\ Call(x).user_id = "u1"
        /\ Call(y).kind = "notification" /\ Call(y).user_id = "u2"
        /\ Call(x).send = "ok"
        /\ Call(y).release = "ok"
        /\ RowsOfUser(sent_notifications, "u1") # {}
        /\ RowsOfUser(sent_notifications, "u2") = {}

-----------------------------------------------------------------------------
(* The deadline of a pass *)

PassEnds(s) == spc[s] = "pass" /\ spc'[s] # "pass"

DeadlineErr == WrapCtxErr("deadline")

\* A pass fails on its deadline only if its reqCtx was made live and Deadline
\* has gone by since.
DeadlineOnlyAfterThirty ==
    \A s \in Cleaners :
        (PassEnds(s) /\ lastErr'[s] = DeadlineErr)
            => reqLive[s] /\ elapsed[s] >= Deadline

\* A pass that reads its context after Deadline, the cleaners' own context
\* being live, is aborted on the deadline: it deletes nothing, its cleaner
\* goes back to the select, and the cleaners' context and the other cleaner
\* are as they were.
DeadlineAbortsThatPassOnly ==
    \A s \in Cleaners :
        (PassEnds(s) /\ reqLive[s] /\ elapsed[s] >= Deadline /\ sctx = "nil")
            => /\ lastErr'[s] = DeadlineErr
               /\ UNCHANGED <<ledger, pruned>>
               /\ spc'[s] = "select"
               /\ sctx' = "nil"
               /\ \A t \in Cleaners \ {s} :
                      /\ spc'[t] = spc[t]
                      /\ reqLive'[t] = reqLive[t]
                      /\ elapsed'[t] = elapsed[t]
                      /\ lastErr'[t] = lastErr[t]

\* The reqCtx of a pass is derived from the cleaners' context: a pass begun
\* on a cancelled context fails on that cancellation, whatever the time.
DerivedFromCleanerCtx ==
    \A s \in Cleaners :
        (PassEnds(s) /\ ~reqLive[s]) => lastErr'[s] = WrapCtxErr(sctx)

\* Every pass gets a reqCtx of its own: the time of a pass starts at zero.
OwnContextPerPass ==
    \A s \in Cleaners :
        (spc[s] = "select" /\ spc'[s] = "pass")
            => elapsed'[s] = 0 /\ reqLive'[s] = (sctx = "nil")

\* After a pass was aborted on its deadline the next tick starts a pass.
LaterPassesRun ==
    \A s \in Cleaners :
        (spc[s] = "select" /\ tickerC[s] /\ lastErr[s] = DeadlineErr)
            => ENABLED SelectTick(s)

\* C13: every pass runs under a context of its own, derived from the
\* cleaners' context and expiring Deadline = 30 after it was made; a pass
\* that exceeds the deadline is aborted alone, the loop and the cleaners'
\* context staying alive for later passes.
C13_PerPassTimeout ==
    /\ [][DeadlineOnlyAfterThirty /\ DeadlineAbortsThatPassOnly
             /\ DerivedFromCleanerCtx /\ OwnContextPerPass]_vars
    /\ []LaterPassesRun

C13_Witness ==
    \E s \in Cleaners :
        /\ spc[s] = "pass"
        /\ reqLive[s]
        /\ elapsed[s] = Deadline - 1
        /\ lastErr[s] = DeadlineErr
        /\ sctx = "nil"

-----------------------------------------------------------------------------
(* Suppression of achievement notifications *)

\* The lists a configuration can hold.
Lists == UNION {[1 .. n -> Names] : n \in 0 .. MaxEntries}

Fields == {"Levels", "Badges", "Roles"}

\* The configuration is loaded once: one of the three lists is any list, the
\* other two are empty.
SuppressionInit ==
    /\ \E l \in Lists, f \in Fields :
           cfg = [g \in Fields |-> IF g = f THEN l ELSE <<>>]
    /\ asked = [fn |-> "none", name |-> <<>>]
    /\ answer = FALSE
    /\ DispatchInit
    /\ FanOutIdle
    /\ CleanersStarted
    /\ PruneIdle
    /\ HealthIdle

CallIsLevelNotificationDisabled(name) ==
    /\ asked' = [fn |-> "IsLevelNotificationDisabled", name |-> name]
    /\ answer' = IsLevelNotificationDisabled(cfg, name)
    /\ UNCHANGED <<cfg, pruning, health>>
    /\ UNCHANGED <<ledger, clock, dispatch, pruned, fanout, sweeper>>

CallIsBadgeNotificationDisabled(name) ==
    /\ asked' = [fn |-> "IsBadgeNotificationDisabled", name |-> name]
    /\ answer' = IsBadgeNotificationDisabled(cfg, name)
    /\ UNCHANGED <<cfg, pruning, health>>
    /\ UNCHANGED <<ledger, clock, dispatch, pruned, fanout, sweeper>>

CallIsRoleNotificationDisabled(name) ==
    /\ asked' = [fn |-> "IsRoleNotificationDisabled", name |-> name]
    /\ answer' = IsRoleNotificationDisabled(cfg, name)
    /\ UNCHANGED <<cfg, pruning, health>>
    /\ UNCHANGED <<ledger, clock, dispatch, pruned, fanout, sweeper>>

SuppressionNext ==
    \/ \E name \in Names : CallIsLevelNotificationDisabled(name)
    \/ \E name \in Names : CallIsBadgeNotificationDisabled(name)
    \/ \E name \in Names : CallIsRoleNotificationDisabled(name)

SuppressionSpec == SuppressionInit /\ [][SuppressionNext]_vars

-----------------------------------------------------------------------------
(* Properties of the suppression *)

LowerChar(c) == IF c = "G" THEN "g" ELSE IF c = "S" THEN "s" ELSE c

Lower(name) == [i \in 1 .. Len(name) |-> LowerChar(name[i])]

\* The name equals, ignoring case, some entry of the list.
Listed(list, name) == \E i \in 1 .. Len(list) : Lower(list[i]) = Lower(name)

\* The list each function consults.
FieldOf(f) ==
    CASE f = "IsLevelNotificationDisabled" -> "Levels"
      [] f = "IsBadgeNotificationDisabled" -> "Badges"
      [] f = "IsRoleNotificationDisabled"  -> "Roles"

\* C14: each of the three functions returns true iff the name equals,
\* ignoring case, an entry of its own list; an empty list disables nothing.
C14_Suppression ==
    asked.fn # "none"
        => /\ answer = Listed(cfg[FieldOf(asked.fn)], asked.name)
           /\ cfg[FieldOf(asked.fn)] = <<>> => ~answer

C14_Witness ==
    /\ cfg.Badges = << <<"G", "s">> >>
    /\ asked = [fn |-> "IsBadgeNotificationDisabled", name |-> <<"g", "s">>]
    /\ answer

-----------------------------------------------------------------------------
(* CheckHealth *)

CheckHealthEntry_IgnoresPing(ping, marshal) ==
    IF marshal = "err" THEN "[health-check] failed to marshal"
    ELSE "send"

\* What CheckHealth does after db.Ping and json.MarshalContext.
CheckHealthEntry(ping, marshal) ==
    IF ping = "err" THEN "[health-check] failed to ping DB"
    ELSE IF marshal = "err" THEN "[health-check] failed to marshal"
    ELSE "send"

\* errors.Wrapf(<-responder, ...): nil for a nil reply.
CheckHealthResult(reply) ==
    IF reply = "nil" THEN "nil"
    ELSE "[health-check] failed to send health check message to broker"

\* CheckHealth is called: the ping, the marshalling and, if both went well,
\* SendMessage with a fresh responder.  marshal is not reached after a failed
\* ping.
CheckHealth(ping, marshal) ==
    /\ probe.pc = "idle"
    /\ Len(hlog) < MaxProbes
    /\ ping = "err" => marshal = "none"
    /\ ping = "ok" => marshal # "none"
    /\ LET e == CheckHealthEntry(ping, marshal)
           p == [NoProbe EXCEPT !.ping = ping, !.marshal = marshal]
       IN  IF e = "send"
           THEN /\ probe' = [p EXCEPT !.pc = "wait", !.sent = TRUE]
                /\ responder' = <<>>
                /\ brokerMessages' = brokerMessages + 1
                /\ UNCHANGED hlog
           ELSE /\ hlog' = Append(hlog, [p EXCEPT !.pc = "returned", !.result = e])
                /\ UNCHANGED <<probe, responder, brokerMessages>>
    /\ UNCHANGED <<pruning, suppression>>
    /\ UNCHANGED <<ledger, clock, dispatch, pruned, fanout, sweeper>>

\* The message broker client reports the outcome of the send.
BrokerResponds(err) ==
    /\ probe.pc = "wait"
    /\ responder = <<>>
    /\ responder' = <<err>>
    /\ UNCHANGED <<probe, brokerMessages, hlog>>
    /\ UNCHANGED <<pruning, suppression>>
    /\ UNCHANGED <<ledger, clock, dispatch, pruned, fanout, sweeper>>

\* return errors.Wrapf(<-responder, ...)
ReceiveResponse ==
    /\ probe.pc = "wait"
    /\ responder # <<>>
    /\ hlog' = Append(hlog, [probe EXCEPT !.pc = "returned",
                                          !.reply = Head(responder),
                                          !.result = CheckHealthResult(Head(responder))])
    /\ probe' = NoProbe
    /\ responder' = <<>>
    /\ UNCHANGED brokerMessages
    /\ UNCHANGED <<pruning, suppression>>
    /\ UNCHANGED <<ledger, clock, dispatch, pruned, fanout, sweeper>>

HealthNext ==
    \/ \E ping \in {"ok", "err"}, marshal \in {"none", "ok", "err"} :
           CheckHealth(ping, marshal)
    \/ \E err \in {"nil", "failed"} : BrokerResponds(err)
    \/ ReceiveResponse

HealthSpec == Init /\ [][HealthNext]_vars

-----------------------------------------------------------------------------
(* Properties of CheckHealth *)

Probes == {hlog[i] : i \in 1 .. Len(hlog)}

\* C15: CheckHealth returns nil only if the store ping succeeded and the
\* message sent to the broker came back without error; it returns an error
\* if the ping fails or the round trip fails; after a failed ping no message
\* is handed to the broker.
C15_HealthProbe ==
    /\ \A r \in Probes :
           /\ r.result # "none"
           /\ r.result = "nil" => (r.ping = "ok" /\ r.sent /\ r.reply = "nil")
           /\ r.ping = "err" => (r.result # "nil" /\ ~r.sent)
           /\ (r.sent /\ r.reply # "nil") => r.result # "nil"
    /\ probe.sent => probe.ping = "ok"
    /\ brokerMessages
           = Cardinality({i \in 1 .. Len(hlog) : hlog[i].ping = "ok" /\ hlog[i].sent})
                 + (IF probe.sent THEN 1 ELSE 0)
    /\ brokerMessages
           <= Cardinality({i \in 1 .. Len(hlog) : hlog[i].ping = "ok"})
                 + (IF probe.ping = "ok" THEN 1 ELSE 0)

C15_Witness ==
    /\ Len(hlog) = 3
    /\ hlog[1].ping = "err" /\ hlog[1].result # "nil"
    /\ hlog[2].ping = "ok" /\ hlog[2].reply = "failed" /\ hlog[2].result # "nil"
    /\ hlog[3].ping = "ok" /\ hlog[3].reply = "nil" /\ hlog[3].result = "nil"
    /\ brokerMessages = 2

-----------------------------------------------------------------------------
(* The tickers of the cleaners *)

\* Each cleaner makes its ticker with an interval it draws for itself.
TickerInit ==
    /\ \E r \in [Cleaners -> Intn(IntervalChoices)] :
           interval = [s \in Cleaners |-> tickerInterval(r[s])]
    /\ CleanerLoops
    /\ DispatchInit
    /\ FanOutIdle
    /\ RestIdle

\* The life of the cleaners from their start to their return.
TickerNext ==
    \/ \E s \in Cleaners : TickerFire(s)
    \/ \E s \in Cleaners : SelectTick(s)
    \/ \E s \in Cleaners, reqErr \in {"nil", "canceled"},
          exec \in ExecOutcomes : RunPass(s, reqErr, exec)
    \/ \E s \in Cleaners : SelectDone(s)
    \/ Cancel

TickerSpec == TickerInit /\ [][TickerNext]_vars

\* C16: the interval of each cleaner's ticker is between 1 and 24 and is the
\* same from the start of the cleaner to its end.
C16_TickerInterval ==
    /\ [](\A s \in Cleaners : interval[s] \in 1 .. 24)
    /\ [][\A s \in Cleaners : interval'[s] = interval[s]]_vars

C16_Witness ==
    /\ interval["notifications"] = 24
    /\ interval["announcements"] = 1
    /\ \A s \in Cleaners : spc[s] = "returned"
    /\ lastErr["notifications"] = WrapCtxErr("canceled")

-----------------------------------------------------------------------------
(* Termination of the fan-out and invocation of the handlers *)

UnderWay == fpc \in {"spawn", "wait"}

\* A branch that has its result can always put it into the channel.
PublishNeverBlocks ==
    \A i \in Indexes : branch[i] = "send" => Len(errChan) < errCap

\* The channel has room for one result per branch, and when the wait is over
\* every result is in it.
CollectorFindsAll ==
    /\ UnderWay => errCap = fn
    /\ (fpc = "wait" /\ wg = 0) => Len(errChan) = fn

\* C17: if every handler returns, runConcurrently and executeConcurrently
\* return; no branch blocks when it publishes its result, the channel having
\* one place per branch, and the collector waits for no result that does not
\* come.
C17_FanOutTerminates ==
    /\ [](PublishNeverBlocks /\ CollectorFindsAll)
    /\ UnderWay ~> (fpc = "returned")

C17_Witness ==
    /\ fpc = "returned"
    /\ fn = MaxArgs
    /\ Len(errChan) = MaxArgs
    /\ errCap = MaxArgs
    /\ \A i \in 1 .. fn : branch[i] = "exited"

\* C18: in a fan-out call that passes its entry checks the handler is invoked
\* exactly once for each element and for nothing else: never twice, each
\* element by its own branch, and all of them by the time the call returns.
C18_ExactlyOncePerElement ==
    /\ \A i \in Indexes : invoked[i] <= 1
    /\ \A i \in Indexes : i > fn => invoked[i] = 0
    /\ \A i \in 1 .. fn :
           invoked[i] = 1 <=> branch[i] \in {"send", "defer", "exited"}
    /\ (FannedOut /\ fpc = "returned") => \A i \in 1 .. fn : invoked[i] = 1

C18_Witness ==
    /\ fkind = "executeConcurrently"
    /\ fpc = "returned"
    /\ fn = MaxArgs
    /\ \A i \in 1 .. fn : invoked[i] = 1
    /\ errChan[1].ix = MaxArgs

-----------------------------------------------------------------------------
(* Retention against deduplication *)

\* A row stamped within the last RetentionWindow.
InWindow(r) == r.sent_at >= now - RetentionWindow

\* The step is the compensating delete of a dispatch call on key k.
CompensatesKey(k) ==
    \E p \in Dispatchers :
        /\ pc[p] = "release"
        /\ pc'[p] = "idle"
        /\ CallKey(Current(p)) = k

\* A step that removes a row inside the window is never a sweep: only the
\* compensating delete on the row's key removes it.
SweepKeepsRowsInWindow ==
    /\ \A r \in sent_notifications \ sent_notifications' :
           InWindow(r) => CompensatesKey(LedgerKey("notification", r))
    /\ \A r \in sent_announcements \ sent_announcements' :
           InWindow(r) => CompensatesKey(LedgerKey("announcement", r))
    /\ \A k \in LedgerKeys : pruned'[k] > pruned[k] =>
           \A r \in (sent_notifications \ sent_notifications')
                        \cup (sent_announcements \ sent_announcements') :
               ~InWindow(r)

\* The step is a successful send of dispatcher p.
Delivers(p) ==
    /\ pc[p] = "send"
    /\ log'[p][Len(log'[p])].send = "ok"

\* Dispatcher p delivers a key no other call delivered inside the window.
NoRedeliveryInWindow ==
    \A p \in Dispatchers :
        Delivers(p) =>
            \A x \in CallsOn(CallKey(Current(p))) :
                (x # <<p, Len(log[p])>> /\ Call(x).send = "ok")
                    => Call(x).sent_at <= now - RetentionWindow

\* C20 (as stated): a sweep running concurrently with dispatch never removes
\* a row whose sent_at is within the last 24 time units, so a key delivered
\* less than 24 time units ago is never delivered again.
C20_RetentionKeepsDedup ==
    [][SweepKeepsRowsInWindow /\ NoRedeliveryInWindow]_vars

\* The step is a successful reservation of dispatcher p.
Reserves(p) ==
    /\ pc[p] = "idle"
    /\ pc'[p] = "send"

\* A key is reserved only while it has no row.
ReservesOnlyFreeKey ==
    \A p \in Dispatchers :
        Reserves(p) =>
            RowCount(CallKey(log'[p][Len(log'[p])]),
                     sent_notifications, sent_announcements) = 0

\* With no compensating delete on the key, two reservations of it are stamped
\* more than RetentionWindow apart.
ReservationsApart ==
    \A k \in LedgerKeys :
        Released(k) = 0 =>
            \A x, y \in CallsOn(k) :
                (x # y /\ Call(x).reserve = "ok" /\ Call(y).reserve = "ok")
                    => \/ Call(x).sent_at > Call(y).sent_at + RetentionWindow
                       \/ Call(y).sent_at > Call(x).sent_at + RetentionWindow

\* C20 (amended): a sweep never removes a row whose sent_at is within the last
\* 24 time units; such a row goes only by the compensating delete on its key.
\* A key is reserved only while it has no row, so, compensation aside, two
\* reservations of a key are stamped more than 24 time units apart.  (The
\* window runs from the reservation stamp, not from the delivery.)
C20_RetentionKeepsReservations ==
    /\ [][SweepKeepsRowsInWindow /\ ReservesOnlyFreeKey]_vars
    /\ []ReservationsApart

C20_Witness ==
    \E k \in LedgerKeys :
        /\ Delivered(k) = 2
        /\ pruned[k] = 1
        /\ Released(k) = 0
        /\ Rows(k) = 1
        /\ \A r \in sent_notifications \cup sent_announcements : InWindow(r)
        /\ now > RetentionWindow

====
